---------------------------- MODULE Spec2Model ----------------------------
(***************************************************************************)
(* A model of rss-generator: the three site parsers (parsers.py), the feed *)
(* assembler, the stylesheet injection and the fetcher (common.py) and the *)
(* site registry (sites.py).                                               *)
(*                                                                         *)
(* Text is a sequence of tokens (a word, a blank, an em dash, a date       *)
(* phrase); a URL is a record of scheme, host and path segments; a page is *)
(* the sequence of the elements that a parser's find_all visits, in        *)
(* document order, each element a record of what the parser reads from it. *)
(***************************************************************************)
EXTENDS Integers, Sequences, FiniteSets, TLC

VARIABLES
    pc,        \* position of the operation in progress
    site,      \* id of the site being processed (its config is SITES[site])
    html,      \* the page handed to the parser (None: nothing fetched)
    records,   \* the list the parser returned
    articles,  \* the list handed to generate_rss_feed
    env,       \* what the collaborators (browser, file system) will do
    entries,   \* the FeedGenerator's entry list
    files,     \* content of each site's output file
    ret,       \* the value returned by the last operation, or "raised"
    log,       \* the diagnostics printed so far; in a run, since the current site was taken
    todo       \* the sites still to process in this run

vars == <<pc, site, html, records, articles, env, entries, files, ret, log, todo>>

\* ----------------------------------------------------------------- bounds

\* most elements matched on one page
MaxElems == 2
\* most articles in one direct call of generate_rss_feed
MaxFeedIn == 2
\* most records a parser returns in a run over the sites
MaxRecords == 21
\* most further applications of _add_xsl_stylesheet after a feed was written
MaxReapply == 2

\* ------------------------------------------------------------------ text

Absent == <<"#absent">>

TokLen(tok) ==
    CASE tok = "sp" -> 1
      [] tok = "dash" -> 1
      [] tok = "FullDate" -> 17
      [] tok = "AbbrDate" -> 12
      [] tok = "My" -> 2
      [] tok = "Post" -> 4
      [] tok = "News" -> 4
      [] tok = "Jane" -> 4
      [] OTHER -> 3

RECURSIVE CharLen(_)
CharLen(t) == IF t = <<>> THEN 0 ELSE TokLen(Head(t)) + CharLen(Tail(t))

IndexOf(t, tok) ==
    IF \E i \in 1..Len(t) : t[i] = tok
    THEN CHOOSE i \in 1..Len(t) : t[i] = tok /\ \A j \in 1..(i-1) : t[j] # tok
    ELSE 0

\* re.sub(r"<tok>.*$", "", t)
CutAt(t, tok) == IF IndexOf(t, tok) = 0 THEN t ELSE SubSeq(t, 1, IndexOf(t, tok) - 1)

RECURSIVE LStrip(_)
LStrip(t) == IF t # <<>> /\ Head(t) = "sp" THEN LStrip(Tail(t)) ELSE t

RECURSIVE RStrip(_)
RStrip(t) == IF t # <<>> /\ t[Len(t)] = "sp" THEN RStrip(SubSeq(t, 1, Len(t) - 1)) ELSE t

Strip(t) == LStrip(RStrip(t))

\* The text of a date phrase token, as re.search's match.group(0) returns it.
PhraseText(tok) == IF tok = "FullDate" THEN "December 30, 2023" ELSE "Dec 30, 2023"

\* ------------------------------------------------------------------ URLs

NoAttr == [scheme |-> "none", host |-> "", segs |-> <<>>, slash |-> FALSE]
EmptyUrl == [scheme |-> "", host |-> "", segs |-> <<>>, slash |-> FALSE]

Seg(date, slug) == [date |-> date, slug |-> slug]
Rel(segs, slash) == [scheme |-> "", host |-> "", segs |-> segs, slash |-> slash]
Abs(host, segs, slash) == [scheme |-> "https", host |-> host, segs |-> segs, slash |-> slash]

HasAttr(h) == h.scheme # "none"
\* Python truthiness of the href string
NonEmpty(h) == HasAttr(h) /\ h # EmptyUrl
IsAbsolute(h) == h.scheme \in {"http", "https"}

\* urllib.parse.urljoin for an absolute base and an absolute, root-relative
\* or empty reference
UrlJoin(base, h) ==
    IF IsAbsolute(h) THEN h
    ELSE IF h = EmptyUrl THEN base
    ELSE [scheme |-> base.scheme, host |-> base.host, segs |-> h.segs, slash |-> h.slash]

\* "/<name>/" in x
HasDir(h, name) ==
    \E i \in 1..Len(h.segs) :
        /\ h.segs[i] = Seg("", name)
        /\ (i < Len(h.segs) \/ h.slash)

\* re.search(r"/(\d{4})-(\d{2})-(\d{2})", href): the first segment that starts with a date
UrlDate(h) ==
    IF \E i \in 1..Len(h.segs) : h.segs[i].date # ""
    THEN LET i == CHOOSE k \in 1..Len(h.segs) :
                    h.segs[k].date # "" /\ \A j \in 1..(k-1) : h.segs[j].date = ""
         IN h.segs[i].date
    ELSE ""

\* re.search(r"/(\d{4}-\d{2}-\d{2})-", link): the first segment with a date followed by "-"
UrlDateDash(h) ==
    LET hit(k) == h.segs[k].date # "" /\ h.segs[k].slug # ""
    IN IF \E i \in 1..Len(h.segs) : hit(i)
       THEN h.segs[CHOOSE k \in 1..Len(h.segs) : hit(k) /\ \A j \in 1..(k-1) : ~hit(j)].date
       ELSE ""

\* re.search(r"/noticias/([^/]+)/", link): the segment after the first "noticias"
\* directory, when a "/" follows it; <<>> when there is no match
CategorySeg(h) ==
    LET hit(k) == /\ h.segs[k] = Seg("", "noticias")
                  /\ k + 1 <= Len(h.segs)
                  /\ (k + 1 < Len(h.segs) \/ h.slash)
    IN IF \E i \in 1..Len(h.segs) : hit(i)
       THEN <<h.segs[1 + CHOOSE k \in 1..Len(h.segs) : hit(k) /\ \A j \in 1..(k-1) : ~hit(j)]>>
       ELSE <<>>

\* datetime.now().strftime("%Y-%m-%d")
Now == "2026-01-15"

\* ------------------------------------------------------------ site registry

Sites == <<"immich", "diariodominho", "newalbumreleases_metal">>
SiteIds == {Sites[i] : i \in 1..Len(Sites)}

SITES ==
    [s \in SiteIds |->
        CASE s = "immich" ->
                [name |-> "Immich Blog",
                 url |-> Abs("immich.app", <<Seg("", "blog")>>, FALSE),
                 output_file |-> "immich_blog_feed.xml",
                 parser |-> "parse_immich", language |-> "en",
                 description |-> "Latest posts from the Immich blog",
                 email |-> "noreply@immich.app", wait_time |-> 2000, max_articles |-> 10]
          [] s = "diariodominho" ->
                [name |-> "Diario do Minho",
                 url |-> Abs("www.diariodominho.pt", <<>>, TRUE),
                 output_file |-> "diariodominho_feed.xml",
                 parser |-> "parse_diariodominho", language |-> "pt",
                 description |-> "Ultimas noticias do Diario do Minho",
                 email |-> "noreply@diariodominho.pt", wait_time |-> 3000, max_articles |-> 10]
          [] OTHER ->
                [name |-> "New Album Releases - Metal",
                 url |-> Abs("www.newalbumreleases.cc", <<Seg("", "category"), Seg("", "metal")>>, TRUE),
                 output_file |-> "newalbumreleases_metal_feed.xml",
                 parser |-> "parse_newalbumreleases_metal", language |-> "en",
                 description |-> "Latest metal album releases from NewAlbumReleases.cc",
                 email |-> "noreply@newalbumreleases.cc", wait_time |-> 2000, max_articles |-> 20]]


\* ----------------------------------------------------------- parse_immich

FullText(e) == (IF e.h = Absent THEN <<>> ELSE e.h) \o e.body

\* class_=lambda x: x and ("post" in x.lower() or "blog" in x.lower())
ClassHasPostOrBlog(cls) == cls \in {"post", "blog-card", "Post-Preview"}

\* href=lambda x: x and "/blog/" in x and x != "/blog" and x != "/blog/"
IsBlogHref(h) ==
    /\ NonEmpty(h)
    /\ HasDir(h, "blog")
    /\ h # Rel(<<Seg("", "blog")>>, FALSE)
    /\ h # Rel(<<Seg("", "blog")>>, TRUE)

ImmichArticles(page) ==
    LET primary == SelectSeq(page, LAMBDA e : e.tag \in {"article", "div"} /\ ClassHasPostOrBlog(e.cls))
    IN IF primary # <<>> THEN primary
       ELSE SelectSeq(page, LAMBDA e : e.tag = "a" /\ IsBlogHref(e.href))

\* the three re.sub calls and the strip
CleanTitle(t) == Strip(CutAt(CutAt(CutAt(t, "FullDate"), "AbbrDate"), "dash"))

\* Try 1: the first time element's datetime attribute
DateTry1(e) == IF e.time # "#none" THEN e.time ELSE ""

\* Try 2: the first time/span/div whose class has "date": datetime or text
DateTry2(e) == IF e.dateel.has THEN (IF e.dateel.dt # "" THEN e.dateel.dt ELSE e.dateel.text) ELSE ""

\* Try 3: the date in the href
DateTry3(e) == UrlDate(e.href)

\* Try 4: a month-name phrase in the text, the full names first
DateTry4(e) ==
    LET t == FullText(e)
    IN IF IndexOf(t, "FullDate") # 0 THEN PhraseText("FullDate")
       ELSE IF IndexOf(t, "AbbrDate") # 0 THEN PhraseText("AbbrDate")
       ELSE ""

\* the chain with the URL tried before the time element
MutImmichDate(e) ==
    IF DateTry3(e) # "" THEN DateTry3(e)
    ELSE IF DateTry1(e) # "" THEN DateTry1(e)
    ELSE IF DateTry2(e) # "" THEN DateTry2(e)
    ELSE IF DateTry4(e) # "" THEN DateTry4(e)
    ELSE Now

ImmichDate(e) ==
    IF DateTry1(e) # "" THEN DateTry1(e)
    ELSE IF DateTry2(e) # "" THEN DateTry2(e)
    ELSE IF DateTry3(e) # "" THEN DateTry3(e)
    ELSE IF DateTry4(e) # "" THEN DateTry4(e)
    ELSE Now

ImmichDescription(e, title) ==
    IF e.excerpt # Absent THEN e.excerpt
    ELSE IF e.p # Absent THEN e.p
    ELSE title

ImmichHasTitle(e) == e.h # Absent \/ e.tag = "a"

ImmichLink(e, url) == UrlJoin(url, e.href)

\* One pass of the loop body: <<>> when the candidate is skipped.
ImmichPost(e, url) ==
    LET title == CleanTitle(Strip(IF e.h # Absent THEN e.h ELSE FullText(e)))
        link  == ImmichLink(e, url)
    IN IF ~ImmichHasTitle(e) \/ ~HasAttr(e.href) THEN <<>>
       ELSE IF title # <<>> /\ NonEmpty(link)
            THEN <<[title |-> title, link |-> link, date |-> ImmichDate(e),
                    description |-> ImmichDescription(e, title)]>>
            ELSE <<>>

RECURSIVE ImmichLoop(_, _, _)
ImmichLoop(arts, url, posts) ==
    IF arts = <<>> THEN posts
    ELSE ImmichLoop(Tail(arts), url, posts \o ImmichPost(Head(arts), url))

parse_immich(page, url) == ImmichLoop(ImmichArticles(page), url, <<>>)

\* ----------------------------------------------------- parse_diariodominho

\* href=lambda x: x and "/noticias/" in x
IsNoticiasHref(h) == NonEmpty(h) /\ HasDir(h, "noticias")

AnchorText(a) == Strip((IF a.inner = Absent THEN <<>> ELSE a.inner) \o a.rest
                       \o (IF a.p = Absent THEN <<>> ELSE a.p))

\* the title of an anchor, <<>> when neither text is longer than 5 characters
DiarioTitle(a) ==
    IF a.inner # Absent /\ CharLen(a.inner) > 5 THEN a.inner
    ELSE IF CharLen(AnchorText(a)) > 5 THEN AnchorText(a)
    ELSE <<>>

DiarioDate(link) == IF UrlDateDash(link) # "" THEN UrlDateDash(link) ELSE Now

DiarioRecord(a, link) ==
    [title |-> DiarioTitle(a), link |-> link, date |-> DiarioDate(link),
     category |-> CategorySeg(link),
     description |-> IF a.p # Absent THEN a.p ELSE DiarioTitle(a)]

RECURSIVE DiarioLoop(_, _, _, _)
DiarioLoop(as, url, seen, out) ==
    IF as = <<>> THEN out
    ELSE LET a    == Head(as)
             link == UrlJoin(url, a.href)
         IN IF link \in seen THEN DiarioLoop(Tail(as), url, seen, out)
            ELSE IF DiarioTitle(a) = <<>>
                 THEN DiarioLoop(Tail(as), url, seen \cup {link}, out)
                 ELSE DiarioLoop(Tail(as), url, seen \cup {link},
                                 IF NonEmpty(link) THEN Append(out, DiarioRecord(a, link)) ELSE out)

parse_diariodominho(page, url) ==
    DiarioLoop(SelectSeq(page, LAMBDA e : e.tag = "a" /\ IsNoticiasHref(e.href)), url, {}, <<>>)

\* -------------------------------------------- parse_newalbumreleases_metal

\* the clock span's text matched against "On <Month> - <d> - <yyyy>", the
\* month mapped by month_map and the day zero-filled; "" when it does not match
ClockDate(text) ==
    CASE text = "On September - 29 - 2025" -> "2025-09-29"
      [] text = "On May - 5 - 2025" -> "2025-05-05"
      [] OTHER -> ""

\* clock: "#nodiv" (no div.date), "#nospan" (no span.clock), or the span's text
MetalDate(s) ==
    IF s.clock \in {"#nodiv", "#nospan"} THEN Now
    ELSE IF ClockDate(s.clock) # "" THEN ClockDate(s.clock)
    ELSE Now

\* the generated markup, one part per field found
MetalDescription(s, title) ==
    IF ~s.entry.has THEN <<[part |-> "text", value |-> title]>>
    ELSE LET li(label, v) == IF v # "" THEN <<[part |-> label, value |-> v]>> ELSE <<>>
         IN li("img", s.entry.img)
            \o <<[part |-> "heading", value |-> "Album Details:"]>>
            \o li("Artist:", s.entry.artist) \o li("Album:", s.entry.album)
            \o li("Released:", s.entry.released) \o li("Style:", s.entry.style)
            \o li("Format:", s.entry.format) \o li("Size:", s.entry.size)

\* album["link"] = link_elem["href"]
MetalLink(s, url) == s.href

RECURSIVE MetalLoop(_, _, _, _)
MetalLoop(ss, url, seen, out) ==
    IF ss = <<>> THEN out
    ELSE LET s    == Head(ss)
             link == MetalLink(s, url)
         IN IF ~s.h2 \/ ~HasAttr(s.href) THEN MetalLoop(Tail(ss), url, seen, out)
            ELSE IF link \in seen THEN MetalLoop(Tail(ss), url, seen, out)
            ELSE MetalLoop(Tail(ss), url, seen \cup {link},
                           IF s.atext # <<>> /\ NonEmpty(link)
                           THEN Append(out, [title |-> s.atext, link |-> link, date |-> MetalDate(s),
                                             description |-> MetalDescription(s, s.atext)])
                           ELSE out)

parse_newalbumreleases_metal(page, url) ==
    MetalLoop(SelectSeq(page, LAMBDA e : e.tag = "div" /\ e.cls = "single"), url, {}, <<>>)

\* PARSERS / get_parser
Parse(parser, page, url) ==
    CASE parser = "parse_immich" -> parse_immich(page, url)
      [] parser = "parse_diariodominho" -> parse_diariodominho(page, url)
      [] OTHER -> parse_newalbumreleases_metal(page, url)

\* ------------------------------------------------------ generate_rss_feed

NoFile == [exists |-> FALSE, content |-> <<>>]

ValueError == [error |-> "ValueError"]

\* a datetime without timezone, as datetime.strptime builds it for these formats
DT(y, mo, d, h, mi, sec) ==
    [year |-> y, month |-> mo, day |-> d, hour |-> h, minute |-> mi, second |-> sec,
     tzinfo |-> "none"]

Formats == <<"%Y-%m-%d", "%Y-%m-%dT%H:%M:%S", "%B %d, %Y", "%b %d, %Y">>

\* datetime.strptime(str, fmt) on the date strings of the model
Strptime(str, fmt) ==
    CASE fmt = "%Y-%m-%d" ->
            (CASE str = "2024-03-05" -> DT(2024, 3, 5, 0, 0, 0)
               [] str = "2025-10-01" -> DT(2025, 10, 1, 0, 0, 0)
               [] str = "2025-09-29" -> DT(2025, 9, 29, 0, 0, 0)
               [] str = "2025-05-05" -> DT(2025, 5, 5, 0, 0, 0)
               [] str = "2026-01-15" -> DT(2026, 1, 15, 0, 0, 0)
               [] OTHER -> ValueError)
      [] fmt = "%Y-%m-%dT%H:%M:%S" ->
            (CASE str = "2024-03-05T10:20:30" -> DT(2024, 3, 5, 10, 20, 30)
               [] str = "2025-09-30T08:00:00" -> DT(2025, 9, 30, 8, 0, 0)
               [] OTHER -> ValueError)
      [] fmt = "%B %d, %Y" ->
            (CASE str = "March 5, 2024" -> DT(2024, 3, 5, 0, 0, 0)
               [] str = "May 5, 2024" -> DT(2024, 5, 5, 0, 0, 0)
               [] str = "December 30, 2023" -> DT(2023, 12, 30, 0, 0, 0)
               [] OTHER -> ValueError)
      [] OTHER ->
            (CASE str = "Mar 5, 2024" -> DT(2024, 3, 5, 0, 0, 0)
               [] str = "May 5, 2024" -> DT(2024, 5, 5, 0, 0, 0)
               [] str = "Dec 30, 2023" -> DT(2023, 12, 30, 0, 0, 0)
               [] str = "Sep 29, 2025" -> DT(2025, 9, 29, 0, 0, 0)
               [] OTHER -> ValueError)

NoPub == [set |-> FALSE]

\* fe.published(dt): feedgen's FeedEntry.published raises
\* ValueError('Datetime object has no timezone info') for a datetime whose
\* tzinfo is None, and stores any other datetime
FePublished(dt) ==
    IF dt.tzinfo = "none" THEN ValueError ELSE [set |-> TRUE, value |-> dt]

\* the loop over the formats: both strptime and fe.published are inside the
\* try whose ValueError means "continue"
RECURSIVE PublishedFrom(_, _)
PublishedFrom(str, k) ==
    IF k > Len(Formats) THEN NoPub
    ELSE LET dt == Strptime(str, Formats[k])
         IN IF dt = ValueError THEN PublishedFrom(str, k + 1)
            ELSE IF FePublished(dt) = ValueError THEN PublishedFrom(str, k + 1)
            ELSE FePublished(dt)

\* a date that always gets some timestamp
MutEntryPublished(a) == [set |-> TRUE, value |-> DT(2026, 1, 15, 0, 0, 0)]

\* if article.get('date'): ... (the dates of the model are strings)
EntryPublished(a) ==
    IF "date" \in DOMAIN a /\ a.date # "" THEN PublishedFrom(a.date, 1) ELSE NoPub

\* the entry built from an article that has its title and link keys
FeedEntry(a) ==
    [id |-> a.link, title |-> a.title, link |-> a.link,
     description |-> IF "description" \in DOMAIN a THEN a.description ELSE a.title,
     category |-> IF "category" \in DOMAIN a THEN a.category ELSE <<>>,
     published |-> EntryPublished(a)]

\* one entry added twice
MutAddEntry(es, e) == <<e, e>> \o es

\* fg.add_entry(): feedgen's FeedGenerator.add_entry(feedEntry=None,
\* order='prepend') inserts the new entry at the head of the entry list
AddEntry(es, e) == <<e>> \o es

\* the for loop; it stops with KeyError at an article without 'link' or 'title'
RECURSIVE BuildEntries(_, _)
BuildEntries(arts, es) ==
    IF arts = <<>> THEN [ok |-> TRUE, entries |-> es]
    ELSE IF "link" \notin DOMAIN Head(arts) \/ "title" \notin DOMAIN Head(arts)
         THEN [ok |-> FALSE, entries |-> <<>>]
         ELSE BuildEntries(Tail(arts), AddEntry(es, FeedEntry(Head(arts))))

\* feedgen's rss_entry raises ValueError('Required fields not set') for an
\* entry with neither title nor description
Serializable(es) == \A i \in 1..Len(es) : es[i].title # <<>> \/ es[i].description # <<>>

XmlDecl == [kind |-> "<?xml version='1.0' encoding='UTF-8'?>"]
XslPI == [kind |-> "<?xml-stylesheet type=\"text/xsl\" href=\"feed.xsl\"?>"]

\* fg.rss_file(output_file): the declaration, then the rss element
RssDocument(cfg, es) ==
    <<XmlDecl,
      [kind |-> "rss",
       channel |-> [title |-> cfg.name, link |-> cfg.url, description |-> cfg.description,
                    language |-> cfg.language,
                    author |-> [name |-> cfg.name, email |-> cfg.email]],
       items |-> es]>>

\* console.print(msg)
ConsolePrint(lg, msg) == Append(lg, msg)

\* console.print(msg, file=sys.stderr) in an except block: rich's
\* Console.print(*objects, sep, end, style, justify, overflow, no_wrap, emoji,
\* markup, highlight, width, height, crop, soft_wrap, new_line_start) takes no
\* keyword 'file', so the call raises TypeError and prints nothing
ConsolePrintFile(lg, msg) == [raised |-> TRUE, log |-> lg]

HasPI(content) == \E i \in 1..Len(content) : content[i] = XslPI

\* content.replace(declaration, declaration + xsl_pi, 1)
InsertPI(content) ==
    IF \E i \in 1..Len(content) : content[i] = XmlDecl
    THEN LET i == CHOOSE k \in 1..Len(content) :
                    content[k] = XmlDecl /\ \A j \in 1..(k-1) : content[j] # XmlDecl
         IN SubSeq(content, 1, i) \o <<XslPI>> \o SubSeq(content, i + 1, Len(content))
    ELSE content

\* the injection done whatever the file holds
MutXslNeeded(content) == TRUE

\* if '<?xml-stylesheet' not in content
XslNeeded(content) == ~HasPI(content)

\* what _add_xsl_stylesheet leaves in a file it can read and write
AddXslContent(content) == IF XslNeeded(content) THEN InsertPI(content) ELSE content

XslWarning == "Warning: Could not add XSL stylesheet"

\* the file system's part in one _add_xsl_stylesheet: it works, the file cannot
\* be read, or the write fails after `kept` pieces reached the file
XslFaults ==
    {[kind |-> "ok", kept |-> 0], [kind |-> "read_error", kept |-> 0]}
    \cup {[kind |-> "write_error", kept |-> k] : k \in 0..2}

\* the first k pieces of a content
Prefix(content, k) == SubSeq(content, 1, IF k < Len(content) THEN k ELSE Len(content))

\* _add_xsl_stylesheet(xml_file): the new file and the new log
AddXslStylesheet(file, fault, lg) ==
    IF ~file.exists \/ fault.kind = "read_error"
    THEN [file |-> file, log |-> ConsolePrint(lg, XslWarning)]
    ELSE IF ~XslNeeded(file.content)
    THEN [file |-> file, log |-> lg]
    ELSE IF fault.kind = "write_error"
    THEN [file |-> [exists |-> TRUE,
                    content |-> Prefix(AddXslContent(file.content), fault.kept)],
          log |-> ConsolePrint(lg, XslWarning)]
    ELSE [file |-> [exists |-> TRUE, content |-> AddXslContent(file.content)], log |-> lg]

\* generate_rss_feed(articles, output_file, site_config) with the file system
\* behaving as e says: the value returned (or "raised"), the entry list of the
\* FeedGenerator, the output file and the log
GenerateRssFeed(arts, file, cfg, e, lg) ==
    LET built  == BuildEntries(arts, <<>>)
        failed == ~built.ok \/ ~Serializable(built.entries) \/ ~e.rss_ok
        report == ConsolePrintFile(lg, "Error generating RSS feed")
        x      == AddXslStylesheet([exists |-> TRUE, content |-> RssDocument(cfg, built.entries)],
                                   e.xsl, lg)
    IN IF failed
       THEN [ret |-> IF report.raised THEN "raised" ELSE "False",
             entries |-> <<>>, file |-> file, log |-> report.log]
       ELSE [ret |-> "True", entries |-> built.entries, file |-> x.file, log |-> x.log]

\* ------------------------------------------------------- the pages drawn

SeqsUpTo(S, n) == UNION {[1..k -> S] : k \in 0..n}

NoDateEl == [has |-> FALSE, dt |-> "", text |-> ""]
PlainTitle == <<"My", "sp", "Post">>
SuffixedTitle == <<"My", "sp", "Post", "FullDate", "sp", "dash", "sp", "Jane">>
BlogA == <<Seg("", "blog"), Seg("", "a")>>
BlogDated == <<Seg("", "blog"), Seg("2025-10-01", "title")>>

ImmichElem(tag, cls, h, body, href, time, dateel) ==
    [tag |-> tag, cls |-> cls, h |-> h, body |-> body, href |-> href,
     time |-> time, dateel |-> dateel, excerpt |-> Absent, p |-> Absent]

\* containers that differ in title and link, containers that differ in their
\* date sources, anchors for the fallback scan, and a div of another class
ImmichElems ==
    {ImmichElem("article", "post", h, <<>>, href, "#none", NoDateEl) :
        h \in {Absent, PlainTitle, SuffixedTitle, <<"dash", "sp", "Jane">>},
        href \in {NoAttr, Rel(BlogA, FALSE), Abs("immich.app", BlogA, FALSE)}}
    \cup
    {ImmichElem("div", "blog-card", PlainTitle, body, href, time, dateel) :
        body \in {<<>>, <<"sp", "AbbrDate">>},
        href \in {Rel(BlogA, FALSE), Rel(BlogDated, FALSE)},
        time \in {"#none", "2025-09-30T08:00:00"},
        dateel \in {NoDateEl, [has |-> TRUE, dt |-> "", text |-> "Sep 29, 2025"]}}
    \cup
    {ImmichElem("div", "Post-Preview", PlainTitle, <<"FullDate", "sp", "AbbrDate">>, Rel(BlogA, FALSE),
                "", [has |-> TRUE, dt |-> "", text |-> ""]),
     ImmichElem("div", "blog-card", PlainTitle, <<>>, Rel(BlogDated, FALSE),
                "", [has |-> TRUE, dt |-> "2025-09-28", text |-> "Sep 29, 2025"]),
     [ImmichElem("article", "post", PlainTitle, <<>>, Rel(BlogA, FALSE), "#none", NoDateEl)
        EXCEPT !.excerpt = <<"News">>, !.p = <<"Post">>],
     [ImmichElem("article", "post", PlainTitle, <<>>, Rel(BlogA, FALSE), "#none", NoDateEl)
        EXCEPT !.p = <<"Post">>],
     ImmichElem("div", "hero", PlainTitle, <<>>, Rel(BlogA, FALSE), "#none", NoDateEl),
     ImmichElem("a", "", Absent, PlainTitle, Rel(BlogDated, FALSE), "#none", NoDateEl),
     ImmichElem("a", "", Absent, <<"sp">>, Rel(BlogA, FALSE), "#none", NoDateEl),
     ImmichElem("a", "", Absent, PlainTitle, Rel(<<Seg("", "blog")>>, TRUE), "#none", NoDateEl),
     ImmichElem("a", "", Absent, PlainTitle, Rel(<<Seg("", "docs")>>, FALSE), "#none", NoDateEl)}

Noticia == <<Seg("", "noticias"), Seg("", "braga"), Seg("2025-10-01", "x")>>

DiarioElems ==
    {[tag |-> "a", href |-> href, inner |-> inner, rest |-> rest, p |-> Absent] :
        href \in {Rel(Noticia, FALSE), Abs("www.diariodominho.pt", Noticia, FALSE),
                  Rel(<<Seg("", "noticias"), Seg("", "b")>>, FALSE),
                  Rel(<<Seg("", "noticias"), Seg("2025-10-02", "")>>, TRUE)},
        inner \in {Absent, <<"News">>, PlainTitle},
        rest \in {<<>>, <<"sp", "My", "sp", "Post">>}}
    \cup
    {[tag |-> "a", href |-> Rel(Noticia, FALSE), inner |-> PlainTitle, rest |-> <<>>, p |-> <<"Post">>],
     [tag |-> "a", href |-> Rel(<<Seg("", "about")>>, FALSE), inner |-> PlainTitle, rest |-> <<>>, p |-> Absent],
     [tag |-> "a", href |-> NoAttr, inner |-> PlainTitle, rest |-> <<>>, p |-> Absent]}

NoEntry == [has |-> FALSE, img |-> "", artist |-> "", album |-> "", released |-> "",
            style |-> "", format |-> "", size |-> ""]
FullEntry == [has |-> TRUE, img |-> "cover.jpg", artist |-> "Band", album |-> "Record", released |-> "2025",
              style |-> "Metal", format |-> "MP3", size |-> "120 MB"]
AlbumA == <<Seg("", "2025"), Seg("", "album-a")>>

MetalElem(h2, href, atext, clock, entry) ==
    [tag |-> "div", cls |-> "single", h2 |-> h2, href |-> href, atext |-> atext,
     clock |-> clock, entry |-> entry]

MetalElems ==
    {MetalElem(TRUE, href, atext, "On September - 29 - 2025", NoEntry) :
        href \in {NoAttr, EmptyUrl, Rel(AlbumA, TRUE), Abs("www.newalbumreleases.cc", AlbumA, TRUE),
                  Abs("www.newalbumreleases.cc", <<Seg("", "2025"), Seg("", "album-b")>>, TRUE)},
        atext \in {<<>>, <<"My", "Post">>}}
    \cup
    {MetalElem(TRUE, Abs("www.newalbumreleases.cc", AlbumA, TRUE), <<"News">>, clock, entry) :
        clock \in {"#nodiv", "#nospan", "On May - 5 - 2025", "Posted today"},
        entry \in {NoEntry, FullEntry, [FullEntry EXCEPT !.img = "", !.size = ""]}}
    \cup
    {MetalElem(FALSE, NoAttr, <<>>, "#nodiv", NoEntry),
     [MetalElem(TRUE, Rel(AlbumA, TRUE), <<"News">>, "#nodiv", NoEntry) EXCEPT !.cls = "sidebar"]}

ElemsOf(s) ==
    CASE s = "immich" -> ImmichElems
      [] s = "diariodominho" -> DiarioElems
      [] OTHER -> MetalElems

\* ------------------------------------------- specification of the parsers

InitParse ==
    /\ pc = "parse"
    /\ site \in SiteIds
    /\ html \in SeqsUpTo(ElemsOf(site), MaxElems)
    /\ records = <<>>
    /\ articles = <<>>
    /\ env = [kind |-> "parse"]
    /\ entries = <<>>
    /\ files = [s \in SiteIds |-> NoFile]
    /\ ret = "None"
    /\ log = <<>>
    /\ todo = <<>>

\* parser(html_content, url) with the site's parser and url
ParsePage ==
    /\ pc = "parse"
    /\ records' = Parse(SITES[site].parser, html, SITES[site].url)
    /\ ret' = "list"
    /\ pc' = "parsed"
    /\ UNCHANGED <<site, html, articles, env, entries, files, log, todo>>

NextParse == ParsePage

SpecParse == InitParse /\ [][NextParse]_vars

\* ------------------------------------------------ claims on the parsers

RecordOk(r) == r.title # <<>> /\ NonEmpty(r.link) /\ IsAbsolute(r.link)

\* C1: whatever the page and whichever of the three parsers, every record of
\* the returned list has a non-empty title and a non-empty absolute link (a
\* relative href is resolved against the base url before it is emitted).
C1_TitleAndAbsoluteLink ==
    pc = "parsed" => \A i \in 1..Len(records) : RecordOk(records[i])

\* C2: whatever the page and whichever of the three parsers, no two records
\* of the returned list have the same link.
C2_NoSharedLink ==
    pc = "parsed" =>
        \A i, j \in 1..Len(records) : i # j => records[i].link # records[j].link

\* The date the fallback chain of the specification selects for container e.
ChainDate(e) ==
    LET a == e.time \notin {"#none", ""}
        b == e.dateel.has /\ (e.dateel.dt # "" \/ e.dateel.text # "")
        c == \E i \in 1..Len(e.href.segs) : e.href.segs[i].date # ""
        d == \E i \in 1..Len(FullText(e)) : FullText(e)[i] \in {"FullDate", "AbbrDate"}
    IN CASE a -> {e.time}
         [] ~a /\ b -> {IF e.dateel.dt # "" THEN e.dateel.dt ELSE e.dateel.text}
         [] ~a /\ ~b /\ c -> {e.href.segs[i].date : i \in {k \in 1..Len(e.href.segs) : e.href.segs[k].date # ""}}
         [] ~a /\ ~b /\ ~c /\ d -> {"December 30, 2023", "Dec 30, 2023"}
         [] OTHER -> {Now}

\* C10: in parse_immich the date of every emitted record is the one the ordered
\* chain selects (time[datetime], then a date-class element's datetime before
\* its text, then the date in the link, then a month-name phrase of the text,
\* then the current date), and it is never absent.
C10_DateFallbackChain ==
    (pc = "parsed" /\ site = "immich") =>
        LET emitted == SelectSeq(ImmichArticles(html),
                                 LAMBDA e : ImmichPost(e, SITES[site].url) # <<>>)
        IN /\ Len(records) = Len(emitted)
           /\ \A i \in 1..Len(records) :
                /\ records[i].date \in ChainDate(emitted[i])
                /\ records[i].date # ""

\* a container with a time[datetime] element and a dated link was parsed, and
\* one with only the dated link
C10_Witness ==
    /\ pc = "parsed" /\ site = "immich" /\ Len(html) = 2 /\ Len(records) = 2
    /\ html[1].time = "2025-09-30T08:00:00" /\ html[1].href = Rel(BlogDated, FALSE)
    /\ records[1].date = "2025-09-30T08:00:00"
    /\ html[2].time = "#none" /\ ~html[2].dateel.has /\ html[2].href = Rel(BlogDated, FALSE)
    /\ html[2].body = <<>>
    /\ records[2].date = "2025-10-01"

\* --------------------------------------- specification of the assembler

LinkA == Abs("immich.app", BlogA, FALSE)
LinkB == Abs("immich.app", BlogDated, FALSE)

Article(link, date) ==
    [title |-> PlainTitle, link |-> link, description |-> <<"Post">>, date |-> date]

Field(name, value) == [k \in {name} |-> value]

\* articles as the parsers build them, with each kind of date string, and
\* articles that lack a key or hold empty texts
FeedArticles ==
    {Article(LinkA, d) :
        d \in {"2024-03-05", "2024-03-05T10:20:30", "March 5, 2024", "Mar 5, 2024", "May 5, 2024",
               "not-a-date", "2025-09-30T08:00:00.000Z", ""}}
    \cup
    {Article(LinkB, d) : d \in {"2025-10-01", "yesterday"}}
    \cup
    {Field("title", PlainTitle) @@ Field("link", LinkB),
     Field("title", PlainTitle) @@ Field("link", LinkA) @@ Field("category", <<"Braga">>)
        @@ Field("date", "Dec 30, 2023"),
     Field("link", LinkA) @@ Field("date", "2024-03-05"),
     Field("title", PlainTitle) @@ Field("date", "2024-03-05"),
     [Article(LinkB, "2024-03-05") EXCEPT !.title = <<>>, !.description = <<>>]}

InitFeed ==
    /\ pc = "call"
    /\ site \in SiteIds
    /\ html = <<>>
    /\ records = <<>>
    /\ articles \in SeqsUpTo(FeedArticles, MaxFeedIn)
    /\ env \in [kind : {"feed"}, rss_ok : BOOLEAN, xsl : XslFaults, reapplied : {0}]
    /\ entries = <<>>
    /\ files = [s \in SiteIds |-> NoFile]
    /\ ret = "None"
    /\ log = <<>>
    /\ todo = <<>>

\* generate_rss_feed(articles, site_config['output_file'], site_config)
CallGenerate ==
    /\ pc = "call"
    /\ LET g == GenerateRssFeed(articles, files[site], SITES[site], env, log)
       IN /\ ret' = g.ret
          /\ entries' = g.entries
          /\ files' = [files EXCEPT ![site] = g.file]
          /\ log' = g.log
    /\ pc' = "done"
    /\ UNCHANGED <<site, html, records, articles, env, todo>>

\* one more _add_xsl_stylesheet(output_file)
Reapply ==
    /\ pc = "done"
    /\ env.reapplied < MaxReapply
    /\ \E fault \in XslFaults :
         LET x == AddXslStylesheet(files[site], fault, log)
         IN /\ files' = [files EXCEPT ![site] = x.file]
            /\ log' = x.log
    /\ env' = [env EXCEPT !.reapplied = @ + 1]
    /\ UNCHANGED <<pc, site, html, records, articles, entries, ret, todo>>

NextFeed == CallGenerate \/ Reapply

SpecFeed == InitFeed /\ [][NextFeed]_vars

\* ---------------------------------------------- claims on the assembler

\* C4: generate_rss_feed never raises; a failing step makes it return False,
\* and it returns True only after the feed file was written.
C4_NeverRaises ==
    pc = "done" =>
        /\ ret \in {"True", "False"}
        /\ (ret = "True" => files[site].exists)

Matches(date, k) == Strptime(date, Formats[k]) # ValueError

\* the date parsed by the first of the four formats that matches
FirstMatch(date) ==
    Strptime(date, Formats[CHOOSE k \in 1..Len(Formats) :
                              Matches(date, k) /\ \A j \in 1..(k-1) : ~Matches(date, j)])

SameInstant(p, dt) ==
    /\ p.set
    /\ <<p.value.year, p.value.month, p.value.day, p.value.hour, p.value.minute, p.value.second>>
         = <<dt.year, dt.month, dt.day, dt.hour, dt.minute, dt.second>>

HasEntryKeys(a) == "title" \in DOMAIN a /\ "link" \in DOMAIN a

\* C5: in a written feed, the entry of every article whose date string matches
\* one of the four formats has a published timestamp, the date parsed by the
\* first format that matches.
C5_PublishedFromFirstFormat ==
    (pc = "done" /\ ret = "True") =>
        \A i \in 1..Len(articles) :
            ("date" \in DOMAIN articles[i] /\ \E k \in 1..Len(Formats) : Matches(articles[i].date, k)) =>
                \E j \in 1..Len(entries) :
                    /\ entries[j].id = articles[i].link
                    /\ SameInstant(entries[j].published, FirstMatch(articles[i].date))

NoUsableDate(a) ==
    "date" \notin DOMAIN a \/ \A k \in 1..Len(Formats) : ~Matches(a.date, k)

\* nothing but a date can make the call fail
DatesAside ==
    /\ env.rss_ok
    /\ \A i \in 1..Len(articles) :
         /\ HasEntryKeys(articles[i])
         /\ (articles[i].title # <<>>
             \/ ("description" \in DOMAIN articles[i] /\ articles[i].description # <<>>))

\* C6: an article whose date is absent or matches none of the four formats
\* still gets an entry (id, title, link, description), without a published
\* timestamp; every article of the list has its entry and the call succeeds.
C6_UnparsableDateNoTimestamp ==
    (pc = "done" /\ DatesAside) =>
        /\ ret = "True"
        /\ Len(entries) = Len(articles)
        /\ \A i \in 1..Len(articles) :
             LET a == articles[i]
             IN \E j \in 1..Len(entries) :
                  /\ entries[j].id = a.link /\ entries[j].link = a.link
                  /\ entries[j].title = a.title
                  /\ entries[j].description =
                        (IF "description" \in DOMAIN a THEN a.description ELSE a.title)
                  /\ (NoUsableDate(a) => entries[j].published = NoPub)

\* a feed was written for an article with an unparsable date and one without date
C6_Witness ==
    /\ pc = "done" /\ ret = "True" /\ Len(articles) = 2 /\ Len(entries) = 2
    /\ "date" \in DOMAIN articles[1] /\ articles[1].date = "not-a-date"
    /\ "date" \notin DOMAIN articles[2]
    /\ \A j \in 1..2 : entries[j].published = NoPub
    /\ files[site].exists

PICount(content) == Cardinality({i \in 1..Len(content) : content[i] = XslPI})

C9_InputOrder ==
    (pc = "done" /\ ret = "True") =>
        /\ Len(entries) = Len(articles)
        /\ \A i \in 1..Len(entries) : entries[i].id = articles[i].link

\* ------------------------------------------------------ clean_html_content

\* A fragment is a sequence of nodes as written in the markup: a text (a
\* sequence of tokens: a word, "sp" a blank, "nl" a newline, "<" a bare
\* less-than sign), a comment, a marked section <![keyword[ text ]]> (the
\* keyword "" when no name follows "<!["), or an element with its attributes
\* (name and value, in the order written, the value a sequence of
\* blank-separated tokens) and its children.
Node(kind, name, attrs, kids, text) ==
    [kind |-> kind, name |-> name, attrs |-> attrs, kids |-> kids, text |-> text]

TextNode(t) == Node("text", "", <<>>, <<>>, t)
CommentNode(t) == Node("comment", "", <<>>, <<>>, t)
Section(keyword, t) == Node("section", keyword, <<>>, <<>>, t)
Elem(name, attrs, kids) == Node("tag", name, attrs, kids, <<>>)
Attr(name, value) == [name |-> name, value |-> value]

\* html.parser hands tag names, attribute names and section keywords on in lower case
Lower(name) ==
    CASE name = "SCRIPT" -> "script"
      [] name = "HREF" -> "href"
      [] name = "OnClick" -> "onclick"
      [] name = "CDATA" -> "cdata"
      [] OTHER -> name

\* the keywords of the marked sections html.parser accepts; any other keyword
\* ends the parse with an AssertionError, which BeautifulSoup raises as
\* ParserRejectedMarkup
MarkedSections == {"temp", "cdata", "ignore", "include", "rcdata", "if", "else", "endif"}

\* the marked sections of a fragment that the parser rejects, in document order
RECURSIVE RejectedSections(_)
RejectedSections(nodes) ==
    IF nodes = <<>> THEN <<>>
    ELSE LET n == Head(nodes)
         IN (CASE n.kind = "section" /\ Lower(n.name) \notin MarkedSections -> <<n>>
               [] n.kind = "tag" -> RejectedSections(n.kids)
               [] OTHER -> <<>>)
            \o RejectedSections(Tail(nodes))

Rejected(nodes) == RejectedSections(nodes) # <<>>

\* str(e) of the exception of a rejected fragment: the parser stops at the
\* first section it rejects; without a name token the message quotes the
\* markup from "<![" on, with a name it quotes the name
ParserError(nodes) ==
    LET s == Head(RejectedSections(nodes))
    IN IF s.name = "" THEN <<"expected name token at", "<![">> \o s.text
       ELSE <<"unknown status keyword", s.name>>

\* the tags of rich's console markup among the tokens of a line
OpeningTags == {"[red]", "[x]"}
ClosingTags == {"[/red]", "[/x]"}
TagName(tok) == IF tok \in {"[red]", "[/red]"} THEN "red" ELSE "x"

\* rich's markup.render: an opening tag is pushed on the style stack, a closing
\* tag pops the last open tag of its name and, when there is none, raises
\* MarkupError
RECURSIVE MarkupError(_, _)
MarkupError(line, open) ==
    IF line = <<>> THEN FALSE
    ELSE LET tok == Head(line)
         IN IF tok \in OpeningTags THEN MarkupError(Tail(line), Append(open, TagName(tok)))
            ELSE IF tok \in ClosingTags
            THEN LET I == {i \in 1..Len(open) : open[i] = TagName(tok)}
                 IN IF I = {} THEN TRUE
                    ELSE LET last == CHOOSE i \in I : \A j \in I : j <= i
                         IN MarkupError(Tail(line),
                                        SubSeq(open, 1, last - 1) \o SubSeq(open, last + 1, Len(open)))
            ELSE MarkupError(Tail(line), open)

\* console.print(line) with a line that carries console markup: the line
\* is printed (logged as msg), or rendering it raises MarkupError
ConsolePrintMarkup(lg, line, msg) ==
    IF MarkupError(line, <<>>) THEN [raised |-> TRUE, log |-> lg]
    ELSE [raised |-> FALSE, log |-> ConsolePrint(lg, msg)]

\* the attribute dictionary of a tag: a name written twice keeps its first
\* place and its last value
RECURSIVE AttrDict(_, _)
AttrDict(attrs, dict) ==
    IF attrs = <<>> THEN dict
    ELSE LET pair == Attr(Lower(Head(attrs).name), Head(attrs).value)
         IN AttrDict(Tail(attrs),
                     IF \E i \in 1..Len(dict) : dict[i].name = pair.name
                     THEN [i \in 1..Len(dict) |-> IF dict[i].name = pair.name THEN pair ELSE dict[i]]
                     ELSE Append(dict, pair))

\* soup = BeautifulSoup(html, "html.parser") for markup the parser accepts
RECURSIVE Soup(_)
Soup(nodes) ==
    [i \in 1..Len(nodes) |->
        IF nodes[i].kind = "tag"
        THEN Elem(Lower(nodes[i].name), AttrDict(nodes[i].attrs, <<>>), Soup(nodes[i].kids))
        ELSE nodes[i]]

unwanted_tags == <<"nav", "header", "footer", "aside", "script", "style", "svg", "button", "form">>

\* for element in soup.find_all(tag_name): element.decompose()
RECURSIVE RemoveTag(_, _)
RemoveTag(nodes, tag_name) ==
    IF nodes = <<>> THEN <<>>
    ELSE LET n == Head(nodes)
         IN IF n.kind = "tag" /\ n.name = tag_name THEN RemoveTag(Tail(nodes), tag_name)
            ELSE <<IF n.kind = "tag" THEN [n EXCEPT !.kids = RemoveTag(n.kids, tag_name)] ELSE n>>
                 \o RemoveTag(Tail(nodes), tag_name)

\* for tag_name in unwanted_tags: ...
RECURSIVE RemoveTags(_, _)
RemoveTags(nodes, names) ==
    IF names = <<>> THEN nodes ELSE RemoveTags(RemoveTag(nodes, Head(names)), Tail(names))

\* for comment in soup.find_all(string=lambda text: isinstance(text, Comment)): comment.extract()
RECURSIVE RemoveComments(_)
RemoveComments(nodes) ==
    IF nodes = <<>> THEN <<>>
    ELSE LET n == Head(nodes)
         IN IF n.kind = "comment" THEN RemoveComments(Tail(nodes))
            ELSE <<IF n.kind = "tag" THEN [n EXCEPT !.kids = RemoveComments(n.kids)] ELSE n>>
                 \o RemoveComments(Tail(nodes))

\* class_=cls matches a tag when one of the tokens of its class attribute is cls
HasClass(n, cls) ==
    \E i \in 1..Len(n.attrs) :
        n.attrs[i].name = "class" /\ \E k \in 1..Len(n.attrs[i].value) : n.attrs[i].value[k] = cls

\* for element in soup.find_all(class_="muted"): element.decompose()
RECURSIVE RemoveClass(_, _)
RemoveClass(nodes, cls) ==
    IF nodes = <<>> THEN <<>>
    ELSE LET n == Head(nodes)
         IN IF n.kind = "tag" /\ HasClass(n, cls) THEN RemoveClass(Tail(nodes), cls)
            ELSE <<IF n.kind = "tag" THEN [n EXCEPT !.kids = RemoveClass(n.kids, cls)] ELSE n>>
                 \o RemoveClass(Tail(nodes), cls)

IsSpace(tok) == tok \in {"sp", "nl"}

Chars(tok) ==
    CASE IsSpace(tok) -> 1
      [] tok = "<" -> 1
      [] tok = "Paragraph" -> 120
      [] OTHER -> TokLen(tok)

\* str.strip() of a string of the tree
RECURSIVE StripSpace(_)
StripSpace(t) ==
    IF t = <<>> THEN t
    ELSE IF IsSpace(Head(t)) THEN StripSpace(Tail(t))
    ELSE IF IsSpace(t[Len(t)]) THEN StripSpace(SubSeq(t, 1, Len(t) - 1))
    ELSE t

RECURSIVE TextLen(_)
TextLen(t) == IF t = <<>> THEN 0 ELSE Chars(Head(t)) + TextLen(Tail(t))

\* len(ul.get_text(strip=True)): the strings and CDATA sections below the tag,
\* each stripped, joined
RECURSIVE GetTextLen(_)
GetTextLen(nodes) ==
    IF nodes = <<>> THEN 0
    ELSE LET n == Head(nodes)
         IN (CASE n.kind = "text" -> TextLen(StripSpace(n.text))
               [] n.kind = "section" /\ Lower(n.name) = "cdata" -> TextLen(StripSpace(n.text))
               [] n.kind = "tag" -> GetTextLen(n.kids)
               [] OTHER -> 0)
            + GetTextLen(Tail(nodes))

\* len(ul.find_all("a"))
RECURSIVE CountLinks(_)
CountLinks(nodes) ==
    IF nodes = <<>> THEN 0
    ELSE LET n == Head(nodes)
         IN (IF n.kind = "tag" THEN (IF n.name = "a" THEN 1 ELSE 0) + CountLinks(n.kids) ELSE 0)
            + CountLinks(Tail(nodes))

\* the pass over list(soup.find_all(["ul", "ol"])), in document order: a list
\* is examined before the lists inside it, and the lists inside a decomposed
\* list have no text and no links left when their turn comes
RECURSIVE RemoveShortLists(_)
RemoveShortLists(nodes) ==
    IF nodes = <<>> THEN <<>>
    ELSE LET n == Head(nodes)
         IN IF n.kind = "tag" /\ n.name \in {"ul", "ol"}
                /\ GetTextLen(n.kids) < 100 /\ CountLinks(n.kids) > 0
            THEN RemoveShortLists(Tail(nodes))
            ELSE <<IF n.kind = "tag" THEN [n EXCEPT !.kids = RemoveShortLists(n.kids)] ELSE n>>
                 \o RemoveShortLists(Tail(nodes))

MutAllowedAttrs == {"href", "src", "alt", "title", "class", "onclick"}

allowed_attrs == {"href", "src", "alt", "title", "class"}

\* for tag in soup.find_all(True): del tag[attr] for attr not in allowed_attrs
RECURSIVE KeepAllowedAttrs(_)
KeepAllowedAttrs(nodes) ==
    [i \in 1..Len(nodes) |->
        IF nodes[i].kind = "tag"
        THEN [nodes[i] EXCEPT !.attrs = SelectSeq(@, LAMBDA a : a.name \in allowed_attrs),
                              !.kids = KeepAllowedAttrs(@)]
        ELSE nodes[i]]

\* str(soup): the strings of the tree are written one after the other, so
\* strings that have become neighbours form one run of text; a less-than
\* sign in a string is written as the entity &lt;
Escape(t) == [i \in 1..Len(t) |-> IF t[i] = "<" THEN "&lt;" ELSE t[i]]

RECURSIVE Str(_)
Str(nodes) ==
    IF nodes = <<>> THEN <<>>
    ELSE LET n    == Head(nodes)
             rest == Str(Tail(nodes))
         IN CASE n.kind = "text" ->
                    IF rest # <<>> /\ Head(rest).kind = "text"
                    THEN <<TextNode(Escape(n.text) \o Head(rest).text)>> \o Tail(rest)
                    ELSE <<TextNode(Escape(n.text))>> \o rest
              [] n.kind = "tag" -> <<[n EXCEPT !.kids = Str(n.kids)]>> \o rest
              [] OTHER -> <<n>> \o rest

\* the number of blanks and newlines a text starts with
RECURSIVE SpaceRun(_)
SpaceRun(t) == IF t # <<>> /\ IsSpace(Head(t)) THEN 1 + SpaceRun(Tail(t)) ELSE 0

\* re.sub(r"\n\s*\n", "\n", cleaned): from a newline to the last newline of
\* the same run of white space, one newline
RECURSIVE BlankLines(_)
BlankLines(t) ==
    IF t = <<>> THEN <<>>
    ELSE IF Head(t) = "nl"
    THEN LET last == CHOOSE j \in 1..SpaceRun(t) :
                        t[j] = "nl" /\ \A k \in (j+1)..SpaceRun(t) : t[k] # "nl"
         IN <<"nl">> \o BlankLines(SubSeq(t, last + 1, Len(t)))
    ELSE <<Head(t)>> \o BlankLines(Tail(t))

\* re.sub(r"  +", " ", cleaned)
RECURSIVE Blanks(_)
Blanks(t) ==
    IF t = <<>> THEN <<>>
    ELSE IF Head(t) = "sp" /\ Len(t) > 1 /\ t[2] = "sp" THEN Blanks(Tail(t))
    ELSE <<Head(t)>> \o Blanks(Tail(t))

\* the two substitutions, on every run of text of the serialised tree
RECURSIVE CollapseSpace(_)
CollapseSpace(nodes) ==
    [i \in 1..Len(nodes) |->
        CASE nodes[i].kind = "text" -> [nodes[i] EXCEPT !.text = Blanks(BlankLines(@))]
          [] nodes[i].kind = "tag" -> [nodes[i] EXCEPT !.kids = CollapseSpace(@)]
          [] OTHER -> nodes[i]]

\* except Exception as e:
\*     console.print(f"[red]Error in clean_html_content: {e}[/red]"); return html
CleanFailed(markup, e, lg) ==
    LET report == ConsolePrintMarkup(lg, <<"[red]", "Error in clean_html_content:">> \o e \o <<"[/red]">>,
                                     "Error in clean_html_content")
    IN [ret |-> IF report.raised THEN "raised" ELSE "html",
        returned |-> IF report.raised THEN <<>> ELSE markup, log |-> report.log]

\* clean_html_content(html): "html" and the string returned, or "raised", and the log
clean_html_content(markup, lg) ==
    IF Rejected(markup) THEN CleanFailed(markup, ParserError(markup), lg)
    ELSE LET soup    == Soup(markup)
             notags  == RemoveTags(soup, unwanted_tags)
             nonotes == RemoveComments(notags)
             nomuted == RemoveClass(nonotes, "muted")
             nolists == RemoveShortLists(nomuted)
             cleaned == Str(KeepAllowedAttrs(nolists))
         IN [ret |-> "html", returned |-> CollapseSpace(cleaned), log |-> lg]

\* ------------------------------------------------- the content extractors

\* soup.find(name): the path (child indices from the top) of the first
\* element of that name in document order, <<>> when there is none
RECURSIVE FirstPath(_, _, _)
FirstPath(nodes, name, i) ==
    IF i > Len(nodes) THEN <<>>
    ELSE LET n   == nodes[i]
             sub == IF n.kind = "tag" THEN FirstPath(n.kids, name, 1) ELSE <<>>
         IN IF n.kind = "tag" /\ n.name = name THEN <<i>>
            ELSE IF sub # <<>> THEN <<i>> \o sub
            ELSE FirstPath(nodes, name, i + 1)

RECURSIVE NodeAt(_, _)
NodeAt(nodes, path) ==
    IF Len(path) = 1 THEN nodes[path[1]] ELSE NodeAt(nodes[path[1]].kids, Tail(path))

\* str(h1.parent.parent): the parent of a top-level element is the soup, whose
\* parent is None; <<>> stands for no container
GrandparentHtml(soup, path) ==
    IF Len(path) < 2 THEN <<>>
    ELSE IF Len(path) = 2 THEN Str(soup)
    ELSE Str(<<NodeAt(soup, SubSeq(path, 1, Len(path) - 2))>>)

\* the first of these elements, <<>> when there is none
FirstOf(soup, names) ==
    IF names = <<>> THEN <<>>
    ELSE IF FirstPath(soup, Head(names), 1) # <<>>
    THEN Str(<<NodeAt(soup, FirstPath(soup, Head(names), 1))>>)
    ELSE IF Len(names) > 1 /\ FirstPath(soup, names[2], 1) # <<>>
    THEN Str(<<NodeAt(soup, FirstPath(soup, names[2], 1))>>)
    ELSE <<>>

\* "article" in x.lower() or "content" in x.lower(), x a class of the tag
IsContentClass(cls) == cls \in {"article-body", "Content", "content"}

\* soup.find(["div", "section"], class_=lambda x: ...)
RECURSIVE FirstContentBlock(_, _)
FirstContentBlock(nodes, i) ==
    IF i > Len(nodes) THEN <<>>
    ELSE LET n   == nodes[i]
             sub == IF n.kind = "tag" THEN FirstContentBlock(n.kids, 1) ELSE <<>>
         IN IF n.kind = "tag" /\ n.name \in {"div", "section"}
               /\ \E k \in 1..Len(n.attrs) :
                     n.attrs[k].name = "class"
                     /\ \E c \in 1..Len(n.attrs[k].value) : IsContentClass(n.attrs[k].value[c])
            THEN Str(<<n>>)
            ELSE IF sub # <<>> THEN sub
            ELSE FirstContentBlock(nodes, i + 1)

\* except Exception as e: console.print(f"[yellow]Warning: ...: {e}[/yellow]"); return None
ExtractFailed(e, lg) ==
    LET report == ConsolePrintMarkup(lg, <<"[yellow]", "Warning: Could not extract content:">> \o e
                                         \o <<"[/yellow]">>,
                                     "Warning: Could not extract content")
    IN [ret |-> IF report.raised THEN "raised" ELSE "None", content |-> <<>>, log |-> report.log]

\* the tail of both extractors: the chosen markup, if any, is cleaned
ExtractFrom(found, lg) ==
    IF found = <<>> THEN [ret |-> "None", content |-> <<>>, log |-> lg]
    ELSE LET c == clean_html_content(found, lg)
         IN [ret |-> c.ret, content |-> c.returned, log |-> c.log]

\* extract_immich_content(html_content)
extract_immich_content(page, lg) ==
    IF Rejected(page) THEN ExtractFailed(ParserError(page), lg)
    ELSE LET soup == Soup(page)
             held == GrandparentHtml(soup, FirstPath(soup, "h1", 1))
         IN ExtractFrom(IF held # <<>> THEN held ELSE FirstOf(soup, <<"article", "main">>), lg)

\* extract_diariodominho_content(html_content)
extract_diariodominho_content(page, lg) ==
    IF Rejected(page) THEN ExtractFailed(ParserError(page), lg)
    ELSE LET soup    == Soup(page)
             article == FirstOf(soup, <<"article">>)
         IN ExtractFrom(IF article # <<>> THEN article ELSE FirstContentBlock(soup, 1), lg)

\* CONTENT_EXTRACTORS / get_content_extractor
CONTENT_EXTRACTORS == {"parse_immich", "parse_diariodominho"}

ExtractContentOf(parser, page, lg) ==
    IF parser = "parse_immich" THEN extract_immich_content(page, lg)
    ELSE extract_diariodominho_content(page, lg)

\* ----------------------------------------------------------- the uploader

\* os.getenv(name, default): "#unset" stands for a variable that is not set
Getenv(value, default) == IF value = "#unset" THEN default ELSE value

\* the truth value of os.getenv(name): None and "" are false
Truthy(value) == value \notin {"#unset", ""}

\* the values MINIO_ENDPOINT takes: not set, a host without protocol, a url,
\* and a value that starts with 'http' and is no url
Endpoints == {"#unset", "minio.local:9000", "https://minio.local", "http//minio.local"}

\* endpoint.startswith('http')
StartsWithHttp(endpoint) ==
    endpoint \in {"https://minio.example.com", "https://minio.local", "http//minio.local"}

\* if not endpoint.startswith('http'): endpoint = f'https://{endpoint}'
EndpointUrl(endpoint) ==
    IF StartsWithHttp(endpoint) THEN endpoint
    ELSE CASE endpoint = "minio.local:9000" -> "https://minio.local:9000"
           [] OTHER -> endpoint

\* boto3.client('s3', endpoint_url=...) raises ValueError('Invalid endpoint')
\* for an endpoint_url without a host
ValidEndpoint(url) == url # "http//minio.local"

\* os.path.basename(file_path), file_path a sequence of path components
Basename(file_path) == IF file_path = <<>> THEN "" ELSE file_path[Len(file_path)]

\* what the storage service does with one upload: it stores the object, or the
\* transfer ends in an error: botocore's ClientError, boto3's
\* S3UploadFailedError (the error upload_file raises when a request of the
\* transfer is refused) or botocore's EndpointConnectionError (the endpoint
\* cannot be reached); neither of the last two is a ClientError
S3Outcomes == {"ok", "ClientError", "S3UploadFailedError", "EndpointConnectionError"}

\* s3_client.upload_file(file_path, ...): a missing local file ends the
\* transfer with FileNotFoundError before any request is made
UploadFile(file, s3) == IF ~file.exists THEN "FileNotFoundError" ELSE s3

ContentType == "application/rss+xml"

Bucket == "rss-feeds"

\* upload_to_minio(file_path, bucket_name, object_name) with the environment
\* os, the local file and a storage service that behaves as s3 says: the value
\* returned (or "raised"), the clients created, the calls of upload_file, the
\* objects stored and the log
UploadToMinio(file_path, bucket_name, object_name, os, file, s3, lg) ==
    IF ~Truthy(os.access) \/ ~Truthy(os.secret)
    THEN [ret |-> "False", clients |-> 0, attempts |-> 0, stored |-> <<>>,
          log |-> ConsolePrint(lg, "MinIO credentials not found in environment")]
    ELSE LET name     == IF object_name = "#none" THEN Basename(file_path) ELSE object_name
             endpoint == EndpointUrl(Getenv(os.endpoint, "https://minio.example.com"))
             outcome  == UploadFile(file, s3)
             report   == ConsolePrintFile(lg, "Error uploading to MinIO")
         IN IF ~ValidEndpoint(endpoint)
            THEN [ret |-> "raised", clients |-> 0, attempts |-> 0, stored |-> <<>>, log |-> lg]
            ELSE IF outcome = "ok"
            THEN [ret |-> "True", clients |-> 1, attempts |-> 1,
                  stored |-> <<[bucket |-> bucket_name, key |-> name, endpoint |-> endpoint,
                                content_type |-> ContentType, body |-> file.content]>>,
                  log |-> lg]
            ELSE IF outcome = "ClientError"
            THEN [ret |-> IF report.raised THEN "raised" ELSE "False",
                  clients |-> 1, attempts |-> 1, stored |-> <<>>, log |-> report.log]
            ELSE [ret |-> "raised", clients |-> 1, attempts |-> 1, stored |-> <<>>, log |-> lg]

\* check_minio_credentials()
CheckMinioCredentials(os) == Truthy(os.access) /\ Truthy(os.secret)

\* ------------------------------------------------------------ the fetcher

\* the step of the browser session that raises, "none" when none does
BrowserSteps == {"launch", "new_page", "goto", "wait_for_timeout", "content", "close"}

\* a fetcher that hands back what the page holds whatever step failed
MutFetchPageWithPlaywright(url, wait_time, browser, lg) ==
    [ret |-> "html", html |-> browser.page, log |-> lg]

\* fetch_page_with_playwright(url, wait_time) with a browser that fails at
\* browser.fail or renders browser.page: the value returned (or "raised"), the
\* page and the log
FetchPageWithPlaywright(url, wait_time, browser, lg) ==
    IF browser.fail = "none"
    THEN [ret |-> "html", html |-> browser.page, log |-> lg]
    ELSE LET report == ConsolePrintFile(lg, "Error fetching")
         IN [ret |-> IF report.raised THEN "raised" ELSE "None", html |-> <<>>, log |-> report.log]

\* ------------------------------------------------- a run over the sites

\* a rendered page with n distinct, well-formed candidates for site s
SitePage(s, n) ==
    [i \in 1..n |->
        CASE s = "immich" ->
                ImmichElem("article", "post", PlainTitle, <<>>,
                           Rel(<<Seg("", "blog"), Seg("2025-10-01", ToString(i))>>, FALSE),
                           "#none", NoDateEl)
          [] s = "diariodominho" ->
                [tag |-> "a", inner |-> PlainTitle, rest |-> <<>>, p |-> Absent,
                 href |-> Rel(<<Seg("", "noticias"), Seg("", "braga"), Seg("2025-10-01", ToString(i))>>, FALSE)]
          [] OTHER ->
                MetalElem(TRUE, Abs("www.newalbumreleases.cc", <<Seg("", "2025"), Seg("", ToString(i))>>, TRUE),
                          <<"My", "Post">>, "On September - 29 - 2025", FullEntry)]

\* page sizes around the site's cap
PageSizes(s) == {0, 1, SITES[s].max_articles, SITES[s].max_articles + 1, MaxRecords}

Browsers(s) ==
    {[fail |-> f, page |-> <<>>] : f \in BrowserSteps}
    \cup {[fail |-> "none", page |-> SitePage(s, n)] : n \in PageSizes(s)}

\* the pages of the articles of a site, all of one shape in a run: the content
\* under a heading, an article element beside a script, a page without any of
\* the structures looked for, and two pages the parser rejects
ArticlePages ==
    {<<Elem("div", <<Attr("class", <<"article-body">>), Attr("id", <<"main">>)>>,
            <<Elem("div", <<>>, <<Elem("h1", <<>>, <<TextNode(<<"My", "sp", "Post">>)>>)>>),
              Elem("SCRIPT", <<>>, <<TextNode(<<"go()">>)>>),
              Elem("p", <<Attr("style", <<"w">>)>>, <<TextNode(<<"News">>)>>)>>)>>,
     <<Elem("article", <<>>, <<TextNode(<<"Post">>), CommentNode(<<"note">>)>>)>>,
     <<Elem("p", <<>>, <<TextNode(<<"News">>)>>)>>,
     <<Section("foo", <<"My", "Post">>)>>,
     <<Section("", <<"[/x]">>)>>}

\* what the storage side of one upload is: the credentials and the service
Storages ==
    {[access |-> "#unset", secret |-> "#unset", endpoint |-> "#unset", s3 |-> "ok"]}
    \cup {[access |-> "key", secret |-> "secret", endpoint |-> "#unset", s3 |-> o] : o \in S3Outcomes}

\* articles[:max_articles]
Take(list, n) == SubSeq(list, 1, IF Len(list) < n THEN Len(list) ELSE n)

\* the sites of a run: one site, or all of them in the order of the registry
Runs == {<<Sites[i]>> : i \in 1..Len(Sites)} \cup {Sites}

Init ==
    /\ pc = "next"
    /\ todo \in Runs
    /\ site = Sites[1]
    /\ html = <<>>
    /\ records = <<>>
    /\ articles = <<>>
    /\ env = [kind |-> "run"]
    /\ entries = <<>>
    /\ files = [s \in SiteIds |-> NoFile]
    /\ ret = "None"
    /\ log = <<>>

\* the loop over the requested sites takes the next one, with fresh lists; the
\* diagnostics are kept per site
StartSite ==
    /\ pc = "next"
    /\ todo # <<>>
    /\ site' = Head(todo)
    /\ todo' = Tail(todo)
    /\ html' = <<>>
    /\ records' = <<>>
    /\ articles' = <<>>
    /\ entries' = <<>>
    /\ env' = [kind |-> "run"]
    /\ ret' = "None"
    /\ log' = <<>>
    /\ pc' = "fetch"
    /\ UNCHANGED files

\* html = fetch_page_with_playwright(site['url'], site['wait_time'])
Fetch ==
    /\ pc = "fetch"
    /\ \E browser \in Browsers(site) :
         LET f == FetchPageWithPlaywright(SITES[site].url, SITES[site].wait_time, browser, log)
         IN /\ ret' = f.ret
            /\ html' = f.html
            /\ log' = f.log
            /\ env' = [kind |-> "run", fail |-> browser.fail]
    /\ pc' = "fetched"
    /\ UNCHANGED <<site, records, articles, entries, files, todo>>

\* a fetch that gave no page ends the site's pipeline: no feed is written
SkipSite ==
    /\ pc = "fetched"
    /\ ret # "html"
    /\ pc' = "next"
    /\ UNCHANGED <<site, html, records, articles, env, entries, files, ret, log, todo>>

\* articles = parser(html, site['url'])
ParseSite ==
    /\ pc = "fetched"
    /\ ret = "html"
    /\ records' = Parse(SITES[site].parser, html, SITES[site].url)
    /\ ret' = "list"
    /\ pc' = "parsed"
    /\ UNCHANGED <<site, html, articles, env, entries, files, log, todo>>

\* the list is cut to the site's max_articles
CapArticles ==
    /\ pc = "parsed"
    /\ articles' = Take(records, SITES[site].max_articles)
    /\ pc' = "capped"
    /\ UNCHANGED <<site, html, records, env, entries, files, ret, log, todo>>

\* the optional second pass over the articles of a site that has a content
\* extractor: each article's page is fetched and its content extracted; the
\* pass ends at the first call that raises
ExtractContent ==
    /\ pc = "capped"
    /\ articles # <<>>
    /\ SITES[site].parser \in CONTENT_EXTRACTORS
    /\ \E browser \in {[fail |-> "goto", page |-> <<>>]} \cup {[fail |-> "none", page |-> p] : p \in ArticlePages} :
         LET f == FetchPageWithPlaywright(articles[1].link, SITES[site].wait_time, browser, log)
             x == IF f.ret = "html" THEN ExtractContentOf(SITES[site].parser, f.html, f.log)
                  ELSE [ret |-> f.ret, content |-> <<>>, log |-> f.log]
         IN /\ ret' = x.ret
            /\ log' = x.log
            /\ articles' = IF x.ret = "html"
                           THEN [i \in 1..Len(articles) |->
                                    [k \in DOMAIN articles[i] \cup {"content"} |->
                                        IF k = "content" THEN x.content ELSE articles[i][k]]]
                           ELSE articles
    /\ pc' = "extracted"
    /\ UNCHANGED <<site, html, records, env, entries, files, todo>>

\* an exception of the second pass ends the site's pipeline
AbortSite ==
    /\ pc = "extracted"
    /\ ret = "raised"
    /\ pc' = "next"
    /\ UNCHANGED <<site, html, records, articles, env, entries, files, ret, log, todo>>

\* generate_rss_feed(articles, site['output_file'], site)
Generate ==
    /\ pc = "capped" \/ (pc = "extracted" /\ ret # "raised")
    /\ \E e \in [kind : {"run"}, fail : {"none"}, rss_ok : BOOLEAN, xsl : XslFaults] :
         LET g == GenerateRssFeed(articles, files[site], SITES[site], e, log)
         IN /\ ret' = g.ret
            /\ entries' = g.entries
            /\ files' = [files EXCEPT ![site] = g.file]
            /\ log' = g.log
            /\ env' = e
    /\ pc' = "generated"
    /\ UNCHANGED <<site, html, records, articles, todo>>

\* upload_to_minio(site['output_file'], bucket) after a feed was written
Upload ==
    /\ pc = "generated"
    /\ ret = "True"
    /\ \E st \in Storages :
         LET u == UploadToMinio(<<SITES[site].output_file>>, Bucket, "#none", st, files[site], st.s3, log)
         IN /\ ret' = u.ret
            /\ log' = u.log
            /\ env' = [kind |-> "run", fail |-> "none", stored |-> u.stored]
    /\ pc' = "uploaded"
    /\ UNCHANGED <<site, html, records, articles, entries, files, todo>>

\* the site is finished, whatever generate_rss_feed and upload_to_minio did
FinishSite ==
    /\ pc \in {"generated", "uploaded"}
    /\ pc' = "next"
    /\ UNCHANGED <<site, html, records, articles, env, entries, files, ret, log, todo>>

Next ==
    \/ StartSite
    \/ Fetch
    \/ SkipSite
    \/ ParseSite
    \/ CapArticles
    \/ ExtractContent
    \/ AbortSite
    \/ Generate
    \/ Upload
    \/ FinishSite

Spec == Init /\ [][Next]_vars

\* ------------------------------------------------------ claims on a run

\* C3: fetch_page_with_playwright never raises: when a step of the browser
\* session fails it returns None, and it returns the rendered HTML only when
\* every step succeeded.
C3_FetchNeverRaises ==
    pc = "fetched" =>
        /\ ret \in {"html", "None"}
        /\ (env.fail # "none" => ret = "None")
        /\ (ret = "html" => env.fail = "none")

RssItems(file) ==
    {file.content[i].items : i \in {k \in 1..Len(file.content) : file.content[k].kind = "rss"}}

DiarioMatched == SelectSeq(html, LAMBDA e : e.tag = "a" /\ IsNoticiasHref(e.href))

DiarioLinkOf(a) == UrlJoin(SITES["diariodominho"].url, a.href)

\* an anchor qualifies when it yields a title longer than 5 characters
Qualifies(a) == DiarioTitle(a) # <<>>

\* the first anchor of as that resolves to link and qualifies
FirstQualifying(as, link) ==
    LET I == {i \in 1..Len(as) : DiarioLinkOf(as[i]) = link /\ Qualifies(as[i])}
    IN as[CHOOSE i \in I : \A j \in I : i <= j]

\* C15: in parse_diariodominho, a link that at least one matched anchor
\* resolves to with a qualifying title has exactly one record in the output,
\* built from the first qualifying anchor of that link, also when an earlier
\* anchor with the same link was dropped for its title.
C15_FirstQualifyingAnchor ==
    (pc = "parsed" /\ site = "diariodominho") =>
        \A i \in 1..Len(DiarioMatched) :
            LET link == DiarioLinkOf(DiarioMatched[i])
            IN Qualifies(DiarioMatched[i]) =>
                 /\ Cardinality({k \in 1..Len(records) : records[k].link = link}) = 1
                 /\ \E k \in 1..Len(records) :
                      records[k] = DiarioRecord(FirstQualifying(DiarioMatched, link), link)


\* ------------------------------------------ specification of the uploader

\* the environment variables and the storage service of one call
UploadEnvs ==
    [kind : {"upload"}, access : {"#unset", "", "key"}, secret : {"#unset", "", "secret"},
     endpoint : Endpoints, object_name : {"#none", "feed.xml"}, dir : {<<>>, <<"output">>},
     s3 : S3Outcomes, clients : {0}, attempts : {0}, stored : {<<>>}]

\* a feed file of a site, or none, before upload_to_minio is called on its path
InitUpload ==
    /\ pc = "upload"
    /\ site \in SiteIds
    /\ html = <<>>
    /\ records = <<>>
    /\ articles = <<>>
    /\ env \in UploadEnvs
    /\ entries = <<>>
    /\ \E f \in {NoFile, [exists |-> TRUE, content |-> AddXslContent(RssDocument(SITES[site], <<>>))]} :
         files = [s \in SiteIds |-> IF s = site THEN f ELSE NoFile]
    /\ ret = "None"
    /\ log = <<>>
    /\ todo = <<>>

\* upload_to_minio(file_path, bucket_name, object_name)
CallUpload ==
    /\ pc = "upload"
    /\ LET u == UploadToMinio(env.dir \o <<SITES[site].output_file>>, Bucket, env.object_name,
                              env, files[site], env.s3, log)
       IN /\ ret' = u.ret
          /\ env' = [env EXCEPT !.clients = u.clients, !.attempts = u.attempts, !.stored = u.stored]
          /\ log' = u.log
    /\ pc' = "uploaded"
    /\ UNCHANGED <<site, html, records, articles, entries, files, todo>>

NextUpload == CallUpload

SpecUpload == InitUpload /\ [][NextUpload]_vars

\* ------------------------------------------------ claims on the uploader

\* C13: upload_to_minio never raises; with the access key or the secret key
\* absent it returns False without creating a client or attempting an upload;
\* with both present it makes exactly one upload attempt and returns True when
\* the object was stored and False on any transport or storage error.
C13_UploadNeverRaises ==
    pc = "uploaded" =>
        /\ ret \in {"True", "False"}
        /\ ~CheckMinioCredentials(env) =>
              ret = "False" /\ env.clients = 0 /\ env.attempts = 0
        /\ CheckMinioCredentials(env) =>
              /\ env.attempts = 1
              /\ ret = "True" <=> Len(env.stored) = 1
              /\ UploadFile(files[site], env.s3) # "ok" => ret = "False"


\* ----------------------------------------- specification of the sanitizer

\* most children of an element of a drawn fragment
MaxKids == 2

\* nodes without element children
Leaves ==
    {TextNode(<<"My", "sp", "sp", "<", "Post">>), TextNode(<<"Paragraph", "nl", "sp", "nl">>),
     CommentNode(<<"note">>), Section("CDATA", <<"My", "Post">>), Section("foo", <<"My", "Post">>),
     Section("", <<"[/x]">>),
     Elem("a", <<Attr("HREF", <<"/blog/a">>), Attr("OnClick", <<"go()">>)>>, <<TextNode(<<"My", "sp", "Post">>)>>),
     Elem("span", <<Attr("class", <<"note", "muted">>), Attr("id", <<"b">>)>>, <<TextNode(<<"News">>)>>),
     Elem("img", <<Attr("src", <<"a.png">>), Attr("style", <<"w">>), Attr("alt", <<"My">>),
                   Attr("data-id", <<"7">>), Attr("src", <<"b.png">>)>>, <<>>),
     Elem("SCRIPT", <<Attr("src", <<"a.js">>)>>, <<TextNode(<<"go()">>)>>)}

\* elements over the leaves
Containers ==
    {Elem(e.name, e.attrs, kids) :
        e \in {[name |-> "div", attrs |-> <<Attr("id", <<"main">>), Attr("title", <<"My">>)>>],
               [name |-> "ul", attrs |-> <<Attr("class", <<"menu">>)>>],
               [name |-> "p", attrs |-> <<Attr("class", <<"muted">>)>>]},
        kids \in SeqsUpTo(Leaves, MaxKids)}

\* a container, alone, or inside a div, or in a list after a long paragraph;
\* and each of the unwanted elements beside a leaf
Fragments ==
    {<<c>> : c \in Containers}
    \cup {<<Elem("div", <<Attr("style", <<"w">>)>>, <<c>>)>> : c \in Containers}
    \cup {<<Elem("ol", <<>>, <<TextNode(<<"Paragraph">>), c>>)>> : c \in Containers}
    \cup {<<Elem("div", <<>>, <<Elem(unwanted_tags[i], <<Attr("id", <<"b">>)>>, <<TextNode(<<"News">>)>>), l>>)>> :
             i \in 1..Len(unwanted_tags), l \in Leaves}

InitClean ==
    /\ pc = "clean"
    /\ site = Sites[1]
    /\ html \in Fragments
    /\ records = <<>>
    /\ articles = <<>>
    /\ env = [kind |-> "clean", returned |-> <<>>]
    /\ entries = <<>>
    /\ files = [s \in SiteIds |-> NoFile]
    /\ ret = "None"
    /\ log = <<>>
    /\ todo = <<>>

\* clean_html_content(html)
CallClean ==
    /\ pc = "clean"
    /\ LET c == clean_html_content(html, log)
       IN /\ ret' = c.ret
          /\ env' = [env EXCEPT !.returned = c.returned]
          /\ log' = c.log
    /\ pc' = "cleaned"
    /\ UNCHANGED <<site, html, records, articles, entries, files, todo>>

NextClean == CallClean

SpecClean == InitClean /\ [][NextClean]_vars


\* ----------------------------------------------- claims on the sanitizer

\* every node of a fragment, at any depth
RECURSIVE NodesOf(_)
NodesOf(nodes) ==
    UNION {{nodes[i]} \cup (IF nodes[i].kind = "tag" THEN NodesOf(nodes[i].kids) ELSE {}) :
              i \in 1..Len(nodes)}

DeniedElements == {"nav", "header", "footer", "aside", "script", "style", "svg", "button", "form"}
KeptAttributes == {"href", "src", "alt", "title", "class"}

\* no denied element, no comment, no element of class muted, no attribute
\* outside the kept ones
Sanitized(nodes) ==
    \A n \in NodesOf(nodes) :
        /\ n.kind # "comment"
        /\ n.kind = "tag" =>
              /\ Lower(n.name) \notin DeniedElements
              /\ \A i \in 1..Len(n.attrs) :
                    /\ Lower(n.attrs[i].name) \in KeptAttributes
                    /\ Lower(n.attrs[i].name) = "class" =>
                          \A k \in 1..Len(n.attrs[i].value) : n.attrs[i].value[k] # "muted"

\* C11 (as stated): for every HTML fragment, the output of clean_html_content
\* contains no nav, header, footer, aside, script, style, svg, button or form
\* element, no comment, no element with class muted and no attribute outside
\* {href, src, alt, title, class}.
C11_OutputSanitized ==
    (pc = "cleaned" /\ ret = "html") => Sanitized(env.returned)

\* C11 (amended): the output of a call in which no internal step failed (no
\* error was logged) contains none of these; the output of a call that logged
\* an error is the input, unchanged.
C11_SanitizedUnlessFailed ==
    (pc = "cleaned" /\ ret = "html") =>
        /\ log = <<>> => Sanitized(env.returned)
        /\ log # <<>> => env.returned = html

\* a fragment with a script element and a link with an attribute to strip
\* was cleaned without error, and the link is left with its href alone
C11_Witness ==
    /\ pc = "cleaned" /\ ret = "html" /\ log = <<>>
    /\ \E n \in NodesOf(html) : n.kind = "tag" /\ n.name = "SCRIPT"
    /\ \E n \in NodesOf(html) :
          n.kind = "tag" /\ \E i \in 1..Len(n.attrs) : n.attrs[i].name = "OnClick"
    /\ \E n \in NodesOf(env.returned) :
          n.kind = "tag" /\ n.name = "a" /\ n.attrs = <<Attr("href", <<"/blog/a">>)>>

\* C12: clean_html_content never raises: when an internal step fails it returns
\* its input unchanged, and it has no effect other than its return value and a
\* log line.
C12_CleanNeverRaises ==
    pc = "cleaned" =>
        /\ ret = "html"
        /\ Rejected(html) => env.returned = html /\ Len(log) = 1
        /\ ~Rejected(html) => log = <<>>
        /\ files = [s \in SiteIds |-> NoFile]


\* --------------------------------------------- a run that keeps going

\* a call that was made returns: the steps that call the parser and the
\* assembler, whose guards are written out, do not stay pending for ever
Returns ==
    /\ []<>~(pc = "fetched" /\ ret = "html")
    /\ []<>~(pc = "capped" \/ (pc = "extracted" /\ ret # "raised"))

\* the program runs on, one step after the other: the loop takes the next site,
\* the fetch returns, and each outcome is followed by the step the loop has for it
FairSpec ==
    /\ Spec
    /\ WF_vars(StartSite) /\ WF_vars(Fetch) /\ WF_vars(SkipSite) /\ WF_vars(CapArticles)
    /\ WF_vars(AbortSite) /\ WF_vars(FinishSite)
    /\ Returns

\* --------------------------------------------- claims on a run of sites

Requested(s) == \E i \in 1..Len(todo) : todo[i] = s
Started(s) == pc = "fetch" /\ site = s

\* a feed file changes only in the assemble step of its own site, and that
\* step is reached only with the page a successful fetch returned
FeedOnlyAfterFetch ==
    \A s \in SiteIds :
        files'[s] # files[s] => s = site /\ pc \in {"capped", "extracted"} /\ env.fail = "none"

\* a failed fetch is followed by the next site, with no file written
FailedFetchSkips ==
    (pc = "fetched" /\ ret # "html") => (pc' = "next" /\ files' = files)

\* every entry of a site's feed has a link on the host of that site
OwnRecordsOnly ==
    \A s \in SiteIds : \A items \in RssItems(files[s]) :
        \A i \in 1..Len(items) : items[i].link.host = SITES[s].url.host

=============================================================================
